---- MODULE Spec2Model ----
(***************************************************************************)
(* A model of the androidbinary decoder: the chunk dispatcher (NewFile,    *)
(* readChunk, readXML, readTable, ReadTablePackage), the string pool       *)
(* decoder (ReadStringPool, ReadUTF8, ReadUTF16), the binary XML           *)
(* translator (ReadStartNamespace .. ReadEndElement, AddNamespace) of      *)
(* src/main.go, and the injection walk over the typed-value facades of     *)
(* src/unnamed/part_000.                                                   *)
(*                                                                         *)
(* Representation.  Text is a sequence of one-character strings.  TLC's    *)
(* integers are 32-bit signed, so a uint32 that is formatted digit by      *)
(* digit (ResValue.Data) is a record [hi, lo] of its 16-bit halves, and    *)
(* the sentinel reference 0xFFFFFFFF is written -1 (the same 32 bits).     *)
(* Offsets and sizes are byte counts.                                      *)
(***************************************************************************)
EXTENDS Integers, Sequences, FiniteSets, TLC

VARIABLES
    f,        \* the File being decoded (main.go:13-20)
    src,      \* the byte source handed to NewFile: its length and the chunks read so far
    stack,    \* the active sub-chunk loops of the chunk recursion, innermost last
    status,   \* position of the decode call: "init", "running", "done", "panic", "cut"
    rcErr,    \* the error f.readChunk(r, 0) returned to NewFile
    ret,      \* what NewFile returned: <<[file, err]>>, or <<>> before it returns
    reads,    \* the extent of the source the last sub-decoder read, with its chunk window
    events,   \* the chunks an XML chunk's loop has decoded so far, in document order
    sr,       \* the bytes of a UTF-8 string area (ReadUTF8's section reader)
    str,      \* the last result of ReadUTF8: <<[offset, str, err]>>, or <<>>
    facade,   \* the Bool / Int32 facades: id -> [value, table, config]
    passes,   \* the inject passes made so far: sequence of [table, config]
    aggregate \* the value the inject passes walk: a tree of pointers, structs,
              \* slices and arrays with the facades at its leaves

vars == <<f, src, stack, status, rcErr, ret, reads, events, sr, str, facade, passes, aggregate>>

\* Go's nil error, and the errors binary.Read returns at the end of a reader
NoErr == "nil"
EOF == "EOF"
ErrUnexpectedEOF == "unexpected EOF"

(***************************************************************************)
(* Text and numbers                                                        *)
(***************************************************************************)

HexDigits == <<"0","1","2","3","4","5","6","7","8","9","A","B","C","D","E","F">>

\* n (16 bits) as exactly 4 upper-case hexadecimal digits
Hex4(n) ==
    << HexDigits[((n \div 4096) % 16) + 1], HexDigits[((n \div 256) % 16) + 1],
       HexDigits[((n \div 16) % 16) + 1],   HexDigits[(n % 16) + 1] >>

\* fmt's %08X of a uint32 [hi, lo]
Hex8(data) == Hex4(data.hi) \o Hex4(data.lo)

IsZero32(data) == data.hi = 0 /\ data.lo = 0

\* quotient and remainder of a uint32 [hi, lo] by ten
Div10(data) ==
    LET l2 == (data.hi % 10) * 65536 + data.lo
    IN  [q |-> [hi |-> data.hi \div 10, lo |-> l2 \div 10], r |-> l2 % 10]

RECURSIVE Dec32(_)
\* fmt's %d of a uint32 [hi, lo]: its unsigned decimal digits
Dec32(data) ==
    LET d == Div10(data)
    IN  IF IsZero32(d.q) THEN <<HexDigits[d.r + 1]>>
        ELSE Dec32(d.q) \o <<HexDigits[d.r + 1]>>

\* encoding/xml's escape of one character
EscapeChar(c) ==
    CASE c = "\"" -> <<"&","#","3","4",";">>
      [] c = "'"  -> <<"&","#","3","9",";">>
      [] c = "&"  -> <<"&","a","m","p",";">>
      [] c = "<"  -> <<"&","l","t",";">>
      [] c = ">"  -> <<"&","g","t",";">>
      [] OTHER    -> <<c>>

RECURSIVE Escape(_)
\* xml.Escape of a text
Escape(s) == IF s = <<>> THEN <<>> ELSE EscapeChar(Head(s)) \o Escape(Tail(s))

(***************************************************************************)
(* String pool decoder (main.go:294-383).  A section reader over a string  *)
(* area is the sequence of the bytes it can read; reading past its end is  *)
(* EOF.  A Go string is the sequence of its bytes.                         *)
(***************************************************************************)

Bytes == 0..255

UTF8_FLAG == 256

\* binary.Read of n bytes at position pos (0-based) of reader rd: nothing is
\* read for n = 0, EOF when no byte is left, ErrUnexpectedEOF when too few are
ReadErr(rd, pos, n) ==
    IF n = 0 THEN NoErr
    ELSE IF pos >= Len(rd) THEN EOF
    ELSE IF pos + n > Len(rd) THEN ErrUnexpectedEOF
    ELSE NoErr

\* the same over a reader of which only the length, avail, matters
ReadErrN(avail, pos, n) ==
    IF n = 0 THEN NoErr
    ELSE IF pos >= avail THEN EOF
    ELSE IF pos + n > avail THEN ErrUnexpectedEOF
    ELSE NoErr

\* the n bytes at position pos (0-based) of reader rd
BytesAt(rd, pos, n) == SubSeq(rd, pos + 1, pos + n)

ReadUTF8(rd, offset) ==
    IF ReadErr(rd, offset, 1) # NoErr
    THEN [str |-> <<>>, err |-> ReadErr(rd, offset, 1)]
    ELSE LET first == rd[offset + 1]
         IN  IF first >= 128 /\ ReadErr(rd, offset + 1, 1) # NoErr
             THEN [str |-> <<>>, err |-> ReadErr(rd, offset + 1, 1)]
             ELSE LET two  == first >= 128
                      size == IF two THEN (first % 128) * 256 + rd[offset + 2]
                                     ELSE first
                      pos  == IF two THEN offset + 2 ELSE offset + 1
                  IN  IF ReadErr(rd, pos, size) # NoErr
                      THEN [str |-> <<>>, err |-> ReadErr(rd, pos, size)]
                      ELSE [str |-> BytesAt(rd, pos, size), err |-> NoErr]

\* the little-endian uint16 at position pos (0-based) of reader rd
U16At(rd, pos) == rd[pos + 1] + 256 * rd[pos + 2]

\* the UTF-8 bytes of one code point below 0x10000
EncodeRune(r) ==
    IF r < 128 THEN <<r>>
    ELSE IF r < 2048 THEN <<192 + (r \div 64), 128 + (r % 64)>>
    ELSE <<224 + (r \div 4096), 128 + ((r \div 64) % 64), 128 + (r % 64)>>

IsHighSurrogate(u) == u >= 55296 /\ u < 56320
IsLowSurrogate(u) == u >= 56320 /\ u < 57344

RECURSIVE DecodeUTF16(_, _, _)
\* string(utf16.Decode(buf)) for the n code units at position pos of reader rd
DecodeUTF16(rd, pos, n) ==
    IF n = 0 THEN <<>>
    ELSE LET u == U16At(rd, pos)
         IN  IF IsHighSurrogate(u) /\ n >= 2 /\ IsLowSurrogate(U16At(rd, pos + 2))
             THEN LET c == 65536 + (u - 55296) * 1024 + (U16At(rd, pos + 2) - 56320)
                  IN  <<240 + (c \div 262144), 128 + ((c \div 4096) % 64),
                        128 + ((c \div 64) % 64), 128 + (c % 64)>>
                      \o DecodeUTF16(rd, pos + 4, n - 2)
             ELSE IF IsHighSurrogate(u) \/ IsLowSurrogate(u)
             THEN <<239, 191, 189>> \o DecodeUTF16(rd, pos + 2, n - 1)
             ELSE EncodeRune(u) \o DecodeUTF16(rd, pos + 2, n - 1)

ReadUTF16(rd, offset) ==
    IF ReadErr(rd, offset, 2) # NoErr
    THEN [str |-> <<>>, err |-> ReadErr(rd, offset, 2)]
    ELSE LET first == U16At(rd, offset)
         IN  IF first >= 32768 /\ ReadErr(rd, offset + 2, 2) # NoErr
             THEN [str |-> <<>>, err |-> ReadErr(rd, offset + 2, 2)]
             ELSE LET two  == first >= 32768
                      size == IF two THEN (first % 32768) * 65536 + U16At(rd, offset + 2)
                                     ELSE first
                      pos  == IF two THEN offset + 4 ELSE offset + 2
                      \* 2 * size bytes; more than the reader holds is more than it holds
                      need == IF size > Len(rd) THEN Len(rd) + 1 ELSE 2 * size
                  IN  IF ReadErr(rd, pos, need) # NoErr
                      THEN [str |-> <<>>, err |-> ReadErr(rd, pos, need)]
                      ELSE [str |-> DecodeUTF16(rd, pos, size), err |-> NoErr]

\* The characters of the bytes 32..126, in order (byte 96, which a TLA+ string
\* cannot hold, under the name of a non-printable byte).
Printable ==
    << " ","!","\"","#","$","%","&","'","(",")","*","+",",","-",".","/",
       "0","1","2","3","4","5","6","7","8","9",":",";","<","=",">","?",
       "@","A","B","C","D","E","F","G","H","I","J","K","L","M","N","O",
       "P","Q","R","S","T","U","V","W","X","Y","Z","[","\\","]","^","_",
       "\\x96","a","b","c","d","e","f","g","h","i","j","k","l","m","n","o",
       "p","q","r","s","t","u","v","w","x","y","z","{","|","}","~" >>

\* one byte of a Go string as a character of a text
Chr(b) == IF b >= 32 /\ b <= 126 THEN Printable[b - 31] ELSE "\\x" \o ToString(b)

\* a Go string (its bytes) as a text
Text(bs) == [i \in 1..Len(bs) |-> Chr(bs[i])]

RECURSIVE ReadStrings(_, _, _, _)
\* the loop of ReadStringPool over the start offsets from the i-th on:
\* the strings decoded, or the first error
ReadStrings(rd, flags, starts, i) ==
    IF i > Len(starts) THEN [strs |-> <<>>, err |-> NoErr]
    ELSE LET one == IF (flags \div UTF8_FLAG) % 2 = 0
                    THEN ReadUTF16(rd, starts[i])
                    ELSE ReadUTF8(rd, starts[i])
         IN  IF one.err # NoErr THEN [strs |-> <<>>, err |-> one.err]
             ELSE LET rest == ReadStrings(rd, flags, starts, i + 1)
                  IN  IF rest.err # NoErr THEN rest
                      ELSE [strs |-> <<Text(one.str)>> \o rest.strs, err |-> NoErr]

\* ReadStringPool over a pool chunk p = [Flags, stringStarts, strings, styleStarts,
\* styles]: strings and styles are the readers' bytes from StringStart and from
\* StylesStart on.  The result holds the pool as <<pool>>, or <<>> (nil) with the error.
ReadStringPool(p) ==
    LET strs == ReadStrings(p.strings, p.Flags, p.stringStarts, 1)
        stys == ReadStrings(p.styles, p.Flags, p.styleStarts, 1)
    IN  IF strs.err # NoErr THEN [pool |-> <<>>, err |-> strs.err]
        ELSE IF stys.err # NoErr THEN [pool |-> <<>>, err |-> stys.err]
        ELSE [pool |-> <<[Flags |-> p.Flags, Strings |-> strs.strs, Styles |-> stys.strs]>>,
              err |-> NoErr]

(***************************************************************************)
(* The File and the binary XML translator (main.go:13-20, 287-292,         *)
(* 396-507).  A nil pointer or nil map is <<>>, a set one is <<v>>; a map  *)
(* is a function on its keys.  A handler yields [f, err, panic]: the file  *)
(* after it, the error it returned, and whether it panicked instead.       *)
(***************************************************************************)

NilResStringPoolRef == -1

\* new(File)
NewFileValue ==
    [ stringPool     |-> <<>>,
      resourceMap    |-> <<>>,
      notPrecessedNS |-> <<>>,
      namespaces     |-> <<>>,
      XMLBuffer      |-> <<>>,
      tablePackages  |-> <<>> ]

Ok(fl) == [f |-> fl, err |-> NoErr, panic |-> FALSE]
Failed(fl, e) == [f |-> fl, err |-> e, panic |-> FALSE]
Panicked(fl) == [f |-> fl, err |-> NoErr, panic |-> TRUE]

\* m[k] = v on a Go map
MapPut(m, k, v) == [x \in (DOMAIN m) \cup {k} |-> IF x = k THEN v ELSE m[x]]

\* delete(m, k) on a Go map
MapDelete(m, k) == [x \in (DOMAIN m) \ {k} |-> m[x]]

\* m[k] on a Go map held in an optional: the zero value for a nil map or a missing key
MapGet(om, k) == IF om # <<>> /\ k \in DOMAIN om[1] THEN om[1][k] ELSE 0

\* f.GetString(ref): [s, panic]; a nil pool or an index outside it panics
GetString(fl, ref) ==
    IF ref = NilResStringPoolRef THEN [s |-> <<>>, panic |-> FALSE]
    ELSE IF fl.stringPool = <<>> THEN [s |-> <<>>, panic |-> TRUE]
    ELSE IF ref < 0 \/ ref >= Len(fl.stringPool[1].Strings) THEN [s |-> <<>>, panic |-> TRUE]
    ELSE [s |-> fl.stringPool[1].Strings[ref + 1], panic |-> FALSE]

\* f.AddNamespace(ns, name): [s, panic]
AddNamespace(fl, ns, name) ==
    LET n == GetString(fl, name)
    IN  IF ns # NilResStringPoolRef
        THEN LET prefix == GetString(fl, MapGet(fl.namespaces, ns))
             IN  [s |-> prefix.s \o <<":">> \o n.s, panic |-> prefix.panic \/ n.panic]
        ELSE n

ReadStartNamespace(fl, namespace) ==
    LET pending == IF fl.notPrecessedNS = <<>> THEN <<>> ELSE fl.notPrecessedNS[1]
        active  == IF fl.namespaces = <<>> THEN <<>> ELSE fl.namespaces[1]
    IN  Ok([fl EXCEPT !.notPrecessedNS = <<MapPut(pending, namespace.Uri, namespace.Prefix)>>,
                      !.namespaces = <<MapPut(active, namespace.Uri, namespace.Prefix)>>])

ReadEndNamespace(fl, namespace) ==
    IF fl.namespaces = <<>> THEN Ok(fl)
    ELSE Ok([fl EXCEPT !.namespaces = <<MapDelete(fl.namespaces[1], namespace.Uri)>>])

TYPE_NULL == 0
TYPE_REFERENCE == 1
TYPE_ATTRIBUTE == 2
TYPE_STRING == 3
TYPE_FLOAT == 4
TYPE_DIMENSION == 5
TYPE_FRACTION == 6
TYPE_INT_DEC == 16
TYPE_INT_HEX == 17
TYPE_INT_BOOLEAN == 18
TYPE_INT_COLOR_ARGB8 == 28

\* the value of one attribute in ReadStartElement (main.go:452-475): [s, panic]
AttributeValue(fl, attr) ==
    IF attr.RawValue # NilResStringPoolRef THEN GetString(fl, attr.RawValue)
    ELSE LET data == attr.TypedValue.Data
             t    == attr.TypedValue.DataType
             v    == CASE t = TYPE_NULL        -> <<>>
                       [] t = TYPE_REFERENCE   -> <<"@","0","x">> \o Hex8(data)
                       [] t = TYPE_INT_DEC     -> Dec32(data)
                       [] t = TYPE_INT_HEX     -> <<"0","x">> \o Hex8(data)
                       [] t = TYPE_INT_BOOLEAN -> IF ~IsZero32(data)
                                                  THEN <<"t","r","u","e">>
                                                  ELSE <<"f","a","l","s","e">>
                       [] OTHER                -> <<"@","0","x">> \o Hex8(data)
         IN  [s |-> v, panic |-> FALSE]

RECURSIVE Perms(_)
\* the orders in which a range over a Go map with key set S may visit its keys
Perms(S) ==
    IF S = {} THEN {<<>>}
    ELSE UNION {{<<k>> \o p : p \in Perms(S \ {k})} : k \in S}

RECURSIVE EmitNamespaces(_, _, _)
\* the loop of ReadStartElement over f.notPrecessedNS (main.go:437-441), visiting
\* its keys in the given order: [s, panic]
EmitNamespaces(fl, pending, order) ==
    IF order = <<>> THEN [s |-> <<>>, panic |-> FALSE]
    ELSE LET uri    == Head(order)
             prefix == GetString(fl, pending[uri])
             u      == GetString(fl, uri)
             rest   == EmitNamespaces(fl, pending, Tail(order))
         IN  IF prefix.panic \/ u.panic \/ rest.panic THEN [s |-> <<>>, panic |-> TRUE]
             ELSE [s |-> <<" ","x","m","l","n","s",":">> \o prefix.s \o <<"=","\"">>
                         \o Escape(u.s) \o <<"\"">> \o rest.s,
                   panic |-> FALSE]

RECURSIVE EmitAttributes(_, _)
\* the loop of ReadStartElement over the attributes (main.go:447-481): [s, panic]
EmitAttributes(fl, attrs) ==
    IF attrs = <<>> THEN [s |-> <<>>, panic |-> FALSE]
    ELSE LET attr  == Head(attrs)
             value == AttributeValue(fl, attr)
             qname == AddNamespace(fl, attr.NS, attr.Name)
             rest  == EmitAttributes(fl, Tail(attrs))
         IN  IF value.panic \/ qname.panic \/ rest.panic THEN [s |-> <<>>, panic |-> TRUE]
             ELSE [s |-> <<" ">> \o qname.s \o <<"=","\"">> \o Escape(value.s) \o <<"\"">>
                         \o rest.s,
                   panic |-> FALSE]

\* ReadStartElement without main.go:442: the pending namespaces are kept
ReadStartElementKeepsPending(fl, ext, attrs, order) ==
    LET qname == AddNamespace(fl, ext.NS, ext.Name)
        decls == IF fl.notPrecessedNS = <<>> THEN [s |-> <<>>, panic |-> FALSE]
                 ELSE EmitNamespaces(fl, fl.notPrecessedNS[1], order)
        as    == EmitAttributes(fl, attrs)
    IN  IF qname.panic \/ decls.panic \/ as.panic THEN Panicked(fl)
        ELSE Ok([fl EXCEPT !.XMLBuffer = @ \o <<"<">> \o qname.s \o decls.s \o as.s \o <<">">>])

\* ReadStartElement for the element ext = [NS, Name] with the attribute records
\* attrs, the range over f.notPrecessedNS visiting its keys in the given order
ReadStartElement(fl, ext, attrs, order) ==
    LET qname == AddNamespace(fl, ext.NS, ext.Name)
        decls == IF fl.notPrecessedNS = <<>> THEN [s |-> <<>>, panic |-> FALSE]
                 ELSE EmitNamespaces(fl, fl.notPrecessedNS[1], order)
        as    == EmitAttributes(fl, attrs)
    IN  IF qname.panic \/ decls.panic \/ as.panic THEN Panicked(fl)
        ELSE Ok([fl EXCEPT !.XMLBuffer = @ \o <<"<">> \o qname.s \o decls.s \o as.s \o <<">">>,
                          !.notPrecessedNS = <<>>])

\* the orders the range over f.notPrecessedNS may take in file fl
PendingOrders(fl) ==
    IF fl.notPrecessedNS = <<>> THEN {<<>>} ELSE Perms(DOMAIN fl.notPrecessedNS[1])

ReadEndElement(fl, ext) ==
    LET qname == AddNamespace(fl, ext.NS, ext.Name)
    IN  IF qname.panic THEN Panicked(fl)
        ELSE Ok([fl EXCEPT !.XMLBuffer = @ \o <<"<","/">> \o qname.s \o <<">">>])

\* the declaration readXML writes first (main.go:272)
XMLDeclaration ==
    << "<","?","x","m","l"," ","v","e","r","s","i","o","n","=","\"","1",".","0","\"",
       " ","e","n","c","o","d","i","n","g","=","\"","u","t","f","-","8","\"","?",">" >>

(***************************************************************************)
(* Chunk dispatcher (main.go:208-285, 385-394, 509-602).                   *)
(*                                                                         *)
(* The byte source is its length and, per absolute offset, the chunk the   *)
(* decoder finds there: the header fields and the fields of the records    *)
(* behind it.  The content of an offset is fixed the first time the        *)
(* decoder reads it (src.chunks) and is the same on every later read.      *)
(***************************************************************************)

RES_NULL_TYPE == 0
RES_STRING_POOL_TYPE == 1
RES_TABLE_TYPE == 2
RES_XML_TYPE == 3
RES_XML_START_NAMESPACE_TYPE == 256
RES_XML_END_NAMESPACE_TYPE == 257
RES_XML_START_ELEMENT_TYPE == 258
RES_XML_END_ELEMENT_TYPE == 259
RES_XML_CDATA_TYPE == 260
RES_XML_RESOURCE_MAP_TYPE == 384
RES_TABLE_PACKAGE_TYPE == 512
RES_TABLE_TYPE_TYPE == 513
RES_TABLE_TYPE_SPEC_TYPE == 514

\* encoded sizes, in bytes, of the records binary.Read decodes
ResChunkHeaderBytes == 8
ResXMLTreeNodeBytes == 16
ResXMLTreeNamespaceExtBytes == 8
ResXMLTreeAttrExtBytes == 20
ResXMLTreeAttributeBytes == 20
ResXMLTreeEndElementExtBytes == 8
ResTableHeaderBytes == 12
ResTablePackageBytes == 284
ResStringPoolHeaderBytes == 28
ResTableTypeBytes == 52
ResTableTypeSpecBytes == 16

\* an empty string pool chunk
NoPool == [Flags |-> 0, stringStarts |-> <<>>, strings |-> <<>>,
           styleStarts |-> <<>>, styles |-> <<>>]

\* a chunk with the given header and every other field zero
Chunk(type, headerSize, size) ==
    [ Type |-> type, HeaderSize |-> headerSize, Size |-> size,
      PackageCount |-> 0,                 \* ResTableHeader
      pool |-> NoPool,                    \* string pool chunk
      ids |-> <<>>,                       \* resource map
      Prefix |-> 0, Uri |-> 0,            \* ResXMLTreeNamespaceExt
      NS |-> 0, Name |-> 0, attrs |-> <<>>,   \* ResXMLTreeAttrExt / EndElementExt
      Id |-> 0, typePool |-> NoPool, keyPool |-> NoPool,   \* ResTablePackage
      EntryCount |-> 0 ]                  \* ResTableType / ResTableTypeSpec

Min(a, b) == IF a < b THEN a ELSE b
Max(a, b) == IF a > b THEN a ELSE b

\* HeaderSize as a leaf decoder of an XML node sees it: the ResXMLTreeNode read
\* leaves the header zero when fewer than its bytes are left (main.go:397-399)
NodeHeaderSize(c, avail) == IF avail >= ResXMLTreeNodeBytes THEN c.HeaderSize ELSE 0

\* the ResXMLTreeNamespaceExt read at HeaderSize (main.go:399-401, 419-421): zero
\* when it cannot be read; at offset 0 it is the chunk header's own bytes
NamespaceExt(c, avail) ==
    LET hs == NodeHeaderSize(c, avail)
    IN  IF ReadErrN(avail, hs, ResXMLTreeNamespaceExtBytes) # NoErr
        THEN [Prefix |-> 0, Uri |-> 0]
        ELSE IF hs = 0
        THEN [Prefix |-> c.Type + 65536 * c.HeaderSize, Uri |-> c.Size]
        ELSE [Prefix |-> c.Prefix, Uri |-> c.Uri]

ZeroAttribute ==
    [NS |-> 0, Name |-> 0, RawValue |-> 0,
     TypedValue |-> [DataType |-> 0, Data |-> [hi |-> 0, lo |-> 0]]]

\* the ResXMLTreeAttrExt and the attributes read behind it (main.go:427-431,
\* 446-450), AttributeStart and AttributeSize being the record sizes: what
\* cannot be read stays zero
ElementExt(c, avail) ==
    LET hs == NodeHeaderSize(c, avail)
    IN  IF ReadErrN(avail, hs, ResXMLTreeAttrExtBytes) # NoErr
        THEN [NS |-> 0, Name |-> 0, attrs |-> <<>>]
        ELSE [NS |-> c.NS, Name |-> c.Name,
              attrs |-> [i \in 1..Len(c.attrs) |->
                           IF ReadErrN(avail,
                                       hs + ResXMLTreeAttrExtBytes
                                          + (i - 1) * ResXMLTreeAttributeBytes,
                                       ResXMLTreeAttributeBytes) = NoErr
                           THEN c.attrs[i] ELSE ZeroAttribute]]

\* ReadResourceMap (main.go:385-394): [ids, err]
ReadResourceMap(c, avail) ==
    LET \* (Size - HeaderSize) / 4 in uint32: a Size below HeaderSize wraps to
        \* more than 2^30 entries, more than any source of the model holds
        wraps == c.Size < c.HeaderSize
        count == IF wraps THEN 0 ELSE (c.Size - c.HeaderSize) \div 4
        e     == ReadErrN(avail, ResChunkHeaderBytes, IF wraps THEN avail + 1 ELSE 4 * count)
    IN  IF e # NoErr THEN [ids |-> <<>>, err |-> e]
        ELSE [ids |-> SubSeq(c.ids, 1, count), err |-> NoErr]

\* ReadStringPool over the chunk at the reader's origin: the header read leaves
\* the counts zero when fewer than its bytes are left (main.go:295-296)
ReadStringPoolChunk(p, avail) ==
    IF avail < ResStringPoolHeaderBytes THEN ReadStringPool(NoPool) ELSE ReadStringPool(p)

\* ReadEndElement with its two checked reads (main.go:486-498)
ReadEndElementChunk(fl, c, avail) ==
    IF ReadErrN(avail, 0, ResXMLTreeNodeBytes) # NoErr
    THEN Failed(fl, ReadErrN(avail, 0, ResXMLTreeNodeBytes))
    ELSE IF ReadErrN(avail, c.HeaderSize, ResXMLTreeEndElementExtBytes) # NoErr
    THEN Failed(fl, ReadErrN(avail, c.HeaderSize, ResXMLTreeEndElementExtBytes))
    ELSE ReadEndElement(fl, [NS |-> c.NS, Name |-> c.Name])

\* the chunk types readChunk hands to a decoder with a sub-chunk loop
LoopTypes == {RES_TABLE_TYPE, RES_XML_TYPE, RES_TABLE_PACKAGE_TYPE}

\* the switch of readChunk (main.go:225-247) for a chunk c without sub-chunk loop,
\* avail bytes of the source being left from its origin: [f, err, panic]
Dispatch(fl, c, avail, order) ==
    CASE c.Type = RES_STRING_POOL_TYPE ->
           LET r == ReadStringPoolChunk(c.pool, avail)
           IN  [f |-> [fl EXCEPT !.stringPool = r.pool], err |-> r.err, panic |-> FALSE]
      [] c.Type = RES_XML_RESOURCE_MAP_TYPE ->
           LET r == ReadResourceMap(c, avail)
           IN  [f |-> [fl EXCEPT !.resourceMap = r.ids], err |-> r.err, panic |-> FALSE]
      [] c.Type = RES_XML_START_NAMESPACE_TYPE ->
           ReadStartNamespace(fl, NamespaceExt(c, avail))
      [] c.Type = RES_XML_END_NAMESPACE_TYPE ->
           ReadEndNamespace(fl, NamespaceExt(c, avail))
      [] c.Type = RES_XML_START_ELEMENT_TYPE ->
           LET ext == ElementExt(c, avail)
           IN  ReadStartElement(fl, ext, ext.attrs, order)
      [] c.Type = RES_XML_END_ELEMENT_TYPE ->
           ReadEndElementChunk(fl, c, avail)
      [] OTHER -> Ok(fl)

\* how far from its origin the decoder of chunk c reads the source
ReadExtent(c, avail) ==
    LET hs   == NodeHeaderSize(c, avail)
        want ==
          CASE c.Type = RES_STRING_POOL_TYPE ->
                 ResStringPoolHeaderBytes + 4 * (Len(c.pool.stringStarts) + Len(c.pool.styleStarts))
            [] c.Type = RES_XML_RESOURCE_MAP_TYPE ->
                 IF c.Size < c.HeaderSize THEN avail
                 ELSE ResChunkHeaderBytes + 4 * ((c.Size - c.HeaderSize) \div 4)
            [] c.Type \in {RES_XML_START_NAMESPACE_TYPE, RES_XML_END_NAMESPACE_TYPE} ->
                 Max(ResXMLTreeNodeBytes, hs + ResXMLTreeNamespaceExtBytes)
            [] c.Type = RES_XML_START_ELEMENT_TYPE ->
                 Max(ResXMLTreeNodeBytes,
                     hs + ResXMLTreeAttrExtBytes + Len(c.attrs) * ResXMLTreeAttributeBytes)
            [] c.Type = RES_XML_END_ELEMENT_TYPE ->
                 Max(ResXMLTreeNodeBytes, c.HeaderSize + ResXMLTreeEndElementExtBytes)
            [] OTHER -> ResChunkHeaderBytes
    IN  Min(want, avail)

(***************************************************************************)
(* The sources explored.  A source is at most MaxChunks chunks long in     *)
(* distinct offsets read, and the recursion at most MaxDepth loops deep;   *)
(* the text written is at most MaxOut characters; a decode that needs more *)
(* ends in status "cut", which no property reads as an outcome of the      *)
(* program.                                                                *)
(***************************************************************************)

MaxChunks == 3
MaxDepth == 3
MaxOut == 48

\* a UTF-16 pool holding "a" and "b", and the same with its string area cut short
PoolAB ==
    [Flags |-> 0, stringStarts |-> <<0, 6>>,
     strings |-> <<1, 0, 97, 0, 0, 0, 1, 0, 98, 0, 0, 0>>,
     styleStarts |-> <<>>, styles |-> <<>>]
PoolCut == [PoolAB EXCEPT !.strings = <<1, 0, 97, 0, 0, 0, 1, 0>>]

SrcLens == {8, 24, 64, 640}

XmlSizes == {8, 32, 56}
TableSizes == {ResTableHeaderBytes + ResTablePackageBytes,
               ResTableHeaderBytes + 2 * ResTablePackageBytes}
PackageSizes == {0, ResTablePackageBytes, ResTablePackageBytes + ResTableTypeBytes}

Menu ==
    {Chunk(RES_XML_TYPE, ResChunkHeaderBytes, n) : n \in XmlSizes}
    \cup {[Chunk(RES_TABLE_TYPE, ResTableHeaderBytes, n) EXCEPT !.PackageCount = k] :
             n \in TableSizes, k \in 0..2}
    \cup {[Chunk(RES_STRING_POOL_TYPE, ResStringPoolHeaderBytes, n) EXCEPT !.pool = p] :
             n \in {0, 48}, p \in {PoolAB, PoolCut}}
    \cup {[Chunk(RES_XML_RESOURCE_MAP_TYPE, ResChunkHeaderBytes, n) EXCEPT !.ids = <<7, 9>>] :
             n \in {8, 16}}
    \cup {[Chunk(RES_XML_START_NAMESPACE_TYPE, ResXMLTreeNodeBytes, n) EXCEPT !.Uri = 1] :
             n \in {0, 24}}
    \cup {[Chunk(RES_XML_END_NAMESPACE_TYPE, ResXMLTreeNodeBytes, 16) EXCEPT !.Uri = 1]}
    \cup {[Chunk(RES_XML_START_ELEMENT_TYPE, ResXMLTreeNodeBytes, 36)
              EXCEPT !.NS = NilResStringPoolRef, !.Name = n] : n \in {0, NilResStringPoolRef}}
    \cup {[Chunk(RES_XML_END_ELEMENT_TYPE, ResXMLTreeNodeBytes, n)
              EXCEPT !.NS = NilResStringPoolRef] : n \in {0, 24}}
    \cup {Chunk(RES_XML_CDATA_TYPE, ResXMLTreeNodeBytes, n) : n \in {0, 28}}
    \cup {[Chunk(RES_TABLE_PACKAGE_TYPE, ResTablePackageBytes, n)
              EXCEPT !.Id = i, !.typePool = PoolAB, !.keyPool = PoolAB] :
             n \in PackageSizes \ {0}, i \in {1, 127}}
    \cup {[Chunk(RES_TABLE_PACKAGE_TYPE, ResTablePackageBytes, 0)
              EXCEPT !.Id = 1, !.typePool = PoolAB, !.keyPool = PoolAB]}
    \cup {[Chunk(RES_TABLE_PACKAGE_TYPE, ResTablePackageBytes, ResTablePackageBytes)
              EXCEPT !.Id = 1, !.typePool = PoolAB, !.keyPool = PoolCut]}
    \cup {[Chunk(RES_TABLE_TYPE_TYPE, ResTableTypeBytes, n) EXCEPT !.Id = 1] :
             n \in {0, ResTableTypeBytes}}
    \cup {[Chunk(RES_TABLE_TYPE_SPEC_TYPE, ResTableTypeSpecBytes, ResTableTypeSpecBytes)
              EXCEPT !.Id = 1]}

\* frames of the chunk recursion: NewFile's call of readChunk(r, 0), and the
\* sub-chunk loops of readXML, readTable and ReadTablePackage.  base is the
\* origin of the frame's section reader in the source, offset and size the
\* loop's cursor and bound, hdr the chunk the frame decodes, pc whether the loop
\* is at its test ("loop") or in its body ("call").
ZeroPackage == [Id |-> 0, TypeStrings |-> <<>>, KeyStrings |-> <<>>, TableTypes |-> <<>>]

Frame(fn, base, offset, size, hdr, pkg) ==
    [fn |-> fn, base |-> base, offset |-> offset, size |-> size, hdr |-> hdr,
     pkg |-> pkg, pc |-> "loop"]

Top == stack[Len(stack)]
Below == SubSeq(stack, 1, Len(stack) - 1)

\* the absolute offset the top frame reads next, and the bytes left from there
At == Top.base + Top.offset
Avail == src.len - At

\* the chunks the source may hold at absolute offset a
Found(a) == IF a \in DOMAIN src.chunks THEN {src.chunks[a]} ELSE Menu

\* NewFile's return (main.go:210-211): readChunk's error e is dropped
NewFileReturn(fl, e) == [file |-> fl, err |-> NoErr]

Idle == UNCHANGED <<events, sr, str, facade, passes, aggregate>>

\* NewFile returns after readChunk(r, 0) returned error e
Finish(fl, e) ==
    /\ f' = fl
    /\ stack' = <<>>
    /\ status' = "done"
    /\ rcErr' = e
    /\ ret' = <<NewFileReturn(fl, e)>>

\* the decode call ends in a panic
Panic(fl) ==
    /\ f' = fl
    /\ status' = "panic"
    /\ UNCHANGED <<stack, rcErr, ret>>

\* the exploration ends here: the source or the recursion exceeds the model's bounds
Cut ==
    /\ status' = "cut"
    /\ UNCHANGED <<f, stack, rcErr, ret>>

\* readChunk returns (chunk c, nil) to the frames stk, file fl: NewFile returns,
\* or the loop that called it advances its cursor (main.go:266, 282)
Returned(stk, fl, c) ==
    LET caller == stk[Len(stk)]
    IN  IF caller.fn = "NewFile" THEN Finish(fl, NoErr)
        ELSE /\ f' = fl
             /\ stack' = [stk EXCEPT ![Len(stk)].offset = @ + c.Size,
                                     ![Len(stk)].pc = "loop"]
             /\ UNCHANGED <<status, rcErr, ret>>

\* readChunk returns error e: every loop of readXML and readTable above returns
\* it in turn (main.go:248-250, 263-265, 279-281)
Raised(fl, e) == Finish(fl, e)

\* the store of readChunk's PACKAGE case, numTablePackages being the local it
\* declares as 0 on every call (main.go:223, 242-246): [f, panic]
StorePackage(fl, pkg) ==
    LET numTablePackages == 0
    IN  IF numTablePackages >= Len(fl.tablePackages) THEN [f |-> fl, panic |-> TRUE]
        ELSE [f |-> [fl EXCEPT !.tablePackages[numTablePackages + 1] = pkg], panic |-> FALSE]

\* ReadTableType over a reader of window bytes (main.go:558-588): [tt, err]
ReadTableType(c, window) ==
    IF ReadErrN(window, 0, ResTableTypeBytes) # NoErr
    THEN [tt |-> <<>>, err |-> ReadErrN(window, 0, ResTableTypeBytes)]
    ELSE IF ReadErrN(window, c.HeaderSize, 4 * c.EntryCount) # NoErr
    THEN [tt |-> <<>>, err |-> ReadErrN(window, c.HeaderSize, 4 * c.EntryCount)]
    ELSE [tt |-> <<[Id |-> c.Id, EntryCount |-> c.EntryCount]>>, err |-> NoErr]

\* ReadTableTypeSpec over a reader of window bytes (main.go:590-602): its error
ReadTableTypeSpec(c, window) ==
    IF ReadErrN(window, 0, ResTableTypeSpecBytes) # NoErr
    THEN ReadErrN(window, 0, ResTableTypeSpecBytes)
    ELSE ReadErrN(window, c.HeaderSize, 4 * c.EntryCount)

\* the source with chunk c known at absolute offset a
Reveal(a, c) == src' = [src EXCEPT !.chunks = MapPut(@, a, c)]

HeaderErr == ReadErrN(Avail, 0, ResChunkHeaderBytes)

\* the chunk at the offset read next is known, or may still be chosen
CanRead == At \in DOMAIN src.chunks \/ Cardinality(DOMAIN src.chunks) < MaxChunks

InCall(fns) == status = "running" /\ Top.pc = "call" /\ Top.fn \in fns
InLoop(fns) == status = "running" /\ Top.pc = "loop" /\ Top.fn \in fns
ReadChunkCallers == {"NewFile", "readXML", "readTable"}

\* NewFile: f := new(File), and the call f.readChunk(r, 0) (main.go:209-210)
NewFile ==
    /\ status = "init"
    /\ f' = NewFileValue
    /\ stack' = <<[Frame("NewFile", 0, 0, 0, Chunk(0, 0, 0), ZeroPackage) EXCEPT !.pc = "call"]>>
    /\ status' = "running"
    /\ UNCHANGED <<src, rcErr, ret, reads>>
    /\ Idle

\* the test of a sub-chunk loop succeeds: offset < size (main.go:261, 277, 531)
LoopTest ==
    /\ InLoop({"readXML", "readTable", "ReadTablePackage"})
    /\ Top.offset < Top.size
    /\ stack' = [stack EXCEPT ![Len(stack)].pc = "call"]
    /\ UNCHANGED <<f, src, status, rcErr, ret, reads>>
    /\ Idle

\* the loop of readXML or readTable ends and readChunk returns its header
LoopExit ==
    /\ InLoop({"readXML", "readTable"})
    /\ Top.offset >= Top.size
    /\ Returned(Below, f, Top.hdr)
    /\ UNCHANGED <<src, reads>>
    /\ Idle

\* the loop of ReadTablePackage ends: readChunk stores the package and returns
PackageExit ==
    /\ InLoop({"ReadTablePackage"})
    /\ Top.offset >= Top.size
    /\ LET r == StorePackage(f, Top.pkg)
       IN  IF r.panic THEN Panic(f) ELSE Returned(Below, r.f, Top.hdr)
    /\ UNCHANGED <<src, reads>>
    /\ Idle

\* readChunk cannot read a chunk header (main.go:218-220)
ReadHeaderFails ==
    /\ InCall(ReadChunkCallers)
    /\ HeaderErr # NoErr
    /\ Raised(f, HeaderErr)
    /\ UNCHANGED <<src, reads>>
    /\ Idle

\* readChunk on a chunk whose decoder has no sub-chunk loop
ReadLeaf ==
    /\ InCall(ReadChunkCallers)
    /\ HeaderErr = NoErr
    /\ CanRead
    /\ \E c \in Found(At) :
         /\ c.Type \notin LoopTypes
         /\ \E order \in (IF c.Type = RES_XML_START_ELEMENT_TYPE THEN PendingOrders(f)
                                                                 ELSE {<<>>}) :
              LET r == Dispatch(f, c, Avail, order)
              IN  /\ Reveal(At, c)
                  /\ reads' = <<[window |-> c.Size, header |-> c.HeaderSize,
                                extent |-> ReadExtent(c, Avail)]>>
                  /\ IF Len(r.f.XMLBuffer) > MaxOut THEN Cut
                     ELSE IF r.panic THEN Panic(r.f)
                     ELSE IF r.err # NoErr THEN Raised(r.f, r.err)
                     ELSE Returned(stack, r.f, c)
    /\ Idle

\* readChunk on an XML chunk: readXML writes the declaration and starts its loop
EnterXML ==
    /\ InCall(ReadChunkCallers)
    /\ HeaderErr = NoErr
    /\ CanRead
    /\ Len(stack) < MaxDepth
    /\ Len(f.XMLBuffer) + Len(XMLDeclaration) <= MaxOut
    /\ \E c \in Found(At) :
         /\ c.Type = RES_XML_TYPE
         /\ Reveal(At, c)
         /\ f' = [f EXCEPT !.XMLBuffer = @ \o XMLDeclaration]
         /\ stack' = Append(stack, Frame("readXML", At, c.HeaderSize, c.Size, c, ZeroPackage))
    /\ UNCHANGED <<status, rcErr, ret, reads>>
    /\ Idle

\* readChunk on a TABLE chunk: readTable allocates the packages and starts its
\* loop; its unchecked header read leaves the header zero when it fails
EnterTable ==
    /\ InCall(ReadChunkCallers)
    /\ HeaderErr = NoErr
    /\ CanRead
    /\ Len(stack) < MaxDepth
    /\ \E c \in Found(At) :
         /\ c.Type = RES_TABLE_TYPE
         /\ Reveal(At, c)
         /\ LET ok == ReadErrN(Avail, 0, ResTableHeaderBytes) = NoErr
                n  == IF ok THEN c.PackageCount ELSE 0
            IN  /\ f' = [f EXCEPT !.tablePackages = [i \in 1..n |-> ZeroPackage]]
                /\ stack' = Append(stack, Frame("readTable", At,
                                                IF ok THEN c.HeaderSize ELSE 0,
                                                IF ok THEN c.Size ELSE 0, c, ZeroPackage))
    /\ UNCHANGED <<status, rcErr, ret, reads>>
    /\ Idle

\* readChunk on a PACKAGE chunk: ReadTablePackage reads the header and the two
\* pools and starts its loop; when it returns an error instead, readChunk
\* dereferences the nil package it got (main.go:244-245, 512-528)
EnterPackage ==
    /\ InCall(ReadChunkCallers)
    /\ HeaderErr = NoErr
    /\ CanRead
    /\ Len(stack) < MaxDepth
    /\ \E c \in Found(At) :
         /\ c.Type = RES_TABLE_PACKAGE_TYPE
         /\ Reveal(At, c)
         /\ LET types == ReadStringPool(c.typePool)
                keys  == ReadStringPool(c.keyPool)
            IN  IF \/ ReadErrN(Avail, 0, ResTablePackageBytes) # NoErr
                   \/ types.err # NoErr
                   \/ keys.err # NoErr
                THEN Panic(f)
                ELSE /\ stack' = Append(stack,
                          Frame("ReadTablePackage", At, c.HeaderSize, c.Size, c,
                                [Id |-> c.Id, TypeStrings |-> types.pool,
                                 KeyStrings |-> keys.pool, TableTypes |-> <<>>]))
                     /\ UNCHANGED <<f, status, rcErr, ret>>
    /\ UNCHANGED reads
    /\ Idle

\* one pass of ReadTablePackage's loop body (main.go:532-552): an error makes
\* ReadTablePackage return nil, which readChunk dereferences
PackageSubChunk ==
    /\ InCall({"ReadTablePackage"})
    /\ HeaderErr # NoErr \/ CanRead
    /\ IF HeaderErr # NoErr
       THEN Panic(f) /\ UNCHANGED <<src, reads>>
       ELSE \E c \in Found(At) :
              LET window == Min(c.Size, Avail)
                  tt     == ReadTableType(c, window)
                  e      == CASE c.Type = RES_TABLE_TYPE_TYPE -> tt.err
                              [] c.Type = RES_TABLE_TYPE_SPEC_TYPE -> ReadTableTypeSpec(c, window)
                              [] OTHER -> NoErr
              IN  /\ Reveal(At, c)
                  /\ reads' = <<[window |-> c.Size, header |-> c.HeaderSize,
                                extent |-> Min(ResChunkHeaderBytes, Avail)]>>
                  /\ IF e # NoErr THEN Panic(f)
                     ELSE /\ stack' = [stack EXCEPT
                                ![Len(stack)].offset = @ + c.Size,
                                ![Len(stack)].pc = "loop",
                                ![Len(stack)].pkg.TableTypes =
                                    IF c.Type = RES_TABLE_TYPE_TYPE THEN @ \o tt.tt ELSE @]
                          /\ UNCHANGED <<f, status, rcErr, ret>>
    /\ Idle

\* the decode needs a chunk or a loop beyond the bounds of the exploration
OutOfBounds ==
    /\ InCall({"NewFile", "readXML", "readTable", "ReadTablePackage"})
    /\ HeaderErr = NoErr
    /\ \/ At \notin DOMAIN src.chunks /\ Cardinality(DOMAIN src.chunks) >= MaxChunks
       \/ /\ Top.fn \in ReadChunkCallers
          /\ At \in DOMAIN src.chunks
          /\ \/ Len(stack) >= MaxDepth /\ src.chunks[At].Type \in LoopTypes
             \/ /\ Len(f.XMLBuffer) + Len(XMLDeclaration) > MaxOut
                /\ src.chunks[At].Type = RES_XML_TYPE
    /\ Cut
    /\ UNCHANGED <<src, reads>>
    /\ Idle

NoInput ==
    /\ events = <<>>
    /\ sr = <<>>
    /\ str = <<>>
    /\ facade = <<>>
    /\ passes = <<>>
    /\ aggregate = <<>>

Init ==
    /\ f = NewFileValue
    /\ src \in {[len |-> n, chunks |-> <<>>] : n \in SrcLens}
    /\ stack = <<>>
    /\ status = "init"
    /\ rcErr = NoErr
    /\ ret = <<>>
    /\ reads = <<>>
    /\ NoInput

Next ==
    \/ NewFile
    \/ LoopTest
    \/ LoopExit
    \/ PackageExit
    \/ ReadHeaderFails
    \/ ReadLeaf
    \/ EnterXML
    \/ EnterTable
    \/ EnterPackage
    \/ PackageSubChunk
    \/ OutOfBounds

Spec == Init /\ [][Next]_vars

\* the decode call is one thread that always takes its next step
FairSpec == Spec /\ WF_vars(Next)

(***************************************************************************)
(* Properties of the chunk dispatcher                                      *)
(***************************************************************************)

Returned0 == status = "done" /\ ret # <<>>

\* C1: decoder errors propagate to the caller: when a sub-decoder reached from
\* the top-level chunk failed, so that readChunk(r, 0) returned an error,
\* NewFile returns a non-nil error.
C1_ErrorsPropagate == (Returned0 /\ rcErr # NoErr) => ret[1].err # NoErr

\* C2: a decode call always terminates: every behaviour of the decoder reaches
\* an end (a return, or a panic), whatever sizes the sub-chunks declare.
C2_Terminates == <>(status \in {"done", "panic", "cut"})

\* C5: a top-level chunk that is neither XML nor TABLE is rejected: NewFile
\* returns an error and has decoded nothing.
C5_TopLevelRejected ==
    (Returned0 /\ 0 \in DOMAIN src.chunks
               /\ src.chunks[0].Type \notin {RES_XML_TYPE, RES_TABLE_TYPE})
    => (ret[1].err # NoErr /\ ret[1].file = NewFileValue)

\* C6: size-bounded descent: a sub-chunk that ends beyond its parent's size fails
\* the decode (so no loop ever stands behind its bound after a sub-chunk), and
\* no sub-decoder reads the source beyond the size bytes of its own chunk (here
\* only for a chunk whose size covers its header).
C6_SizeBounded ==
    /\ \A i \in 1..Len(stack) :
         (stack[i].fn # "NewFile" /\ stack[i].offset > stack[i].hdr.HeaderSize)
         => stack[i].offset <= stack[i].size
    /\ (reads # <<>> /\ reads[1].window >= reads[1].header)
       => reads[1].extent <= reads[1].window

RECURSIVE PackageIdsFrom(_, _, _)
\* the ids of the PACKAGE chunks among the sub-chunks of a table at absolute
\* offset base, from relative offset o to its size, in document order
PackageIdsFrom(base, o, size) ==
    IF o >= size \/ (base + o) \notin DOMAIN src.chunks THEN <<>>
    ELSE LET c == src.chunks[base + o]
         IN  (IF c.Type = RES_TABLE_PACKAGE_TYPE THEN <<c.Id>> ELSE <<>>)
             \o (IF c.Size = 0 THEN <<>> ELSE PackageIdsFrom(base, o + c.Size, size))

\* C9: after a TABLE chunk with k PACKAGE sub-chunks is decoded, the file's
\* package list holds exactly those k packages, one per PACKAGE chunk, in
\* document order.
C9_PackagesInOrder ==
    (Returned0 /\ rcErr = NoErr /\ 0 \in DOMAIN src.chunks
               /\ src.chunks[0].Type = RES_TABLE_TYPE)
    => [i \in 1..Len(f.tablePackages) |-> f.tablePackages[i].Id]
         = PackageIdsFrom(0, src.chunks[0].HeaderSize, src.chunks[0].Size)

(***************************************************************************)
(* ReadUTF8 on its own: the string area is any byte sequence of at most    *)
(* MaxAreaLen bytes drawn from ByteSample, decoded at any offset.          *)
(***************************************************************************)

MaxAreaLen == 4
ByteSample == {0, 1, 2, 97, 128, 169, 195}

RECURSIVE SeqsUpTo(_, _)
\* the sequences over S of length at most n
SeqsUpTo(S, n) ==
    IF n = 0 THEN {<<>>}
    ELSE LET shorter == SeqsUpTo(S, n - 1)
         IN  shorter \cup {Append(q, x) : q \in {t \in shorter : Len(t) = n - 1}, x \in S}

InitUTF8 ==
    /\ sr \in SeqsUpTo(ByteSample, MaxAreaLen)
    /\ str = <<>>
    /\ f = NewFileValue
    /\ src = [len |-> 0, chunks |-> <<>>]
    /\ stack = <<>>
    /\ status = "init"
    /\ rcErr = NoErr
    /\ ret = <<>>
    /\ reads = <<>>
    /\ events = <<>>
    /\ facade = <<>>
    /\ passes = <<>>
    /\ aggregate = <<>>

\* one string of a UTF-8 pool is decoded (main.go:310)
DecodeUTF8 ==
    /\ \E offset \in 0..Len(sr) :
         LET r == ReadUTF8(sr, offset)
         IN  str' = <<[offset |-> offset, str |-> r.str, err |-> r.err]>>
    /\ UNCHANGED <<f, src, stack, status, rcErr, ret, reads, events, sr, facade, passes, aggregate>>

NextUTF8 == DecodeUTF8

SpecUTF8 == InitUTF8 /\ [][NextUTF8]_vars

\* a 1-2 byte length field at position pos of reader rd, as the format defines
\* it: its value and the position behind it; ok when it lies within the reader
LengthField(rd, pos) ==
    IF pos >= Len(rd) THEN [ok |-> FALSE, val |-> 0, next |-> pos]
    ELSE IF rd[pos + 1] < 128 THEN [ok |-> TRUE, val |-> rd[pos + 1], next |-> pos + 1]
    ELSE IF pos + 1 >= Len(rd) THEN [ok |-> FALSE, val |-> 0, next |-> pos]
    ELSE [ok |-> TRUE, val |-> (rd[pos + 1] % 128) * 256 + rd[pos + 2], next |-> pos + 2]

\* the string the format stores at position pos: the character count, the byte
\* length, then that many bytes
StoredUTF8(rd, pos) ==
    LET chars == LengthField(rd, pos)
        bytes == LengthField(rd, chars.next)
    IN  IF chars.ok /\ bytes.ok /\ bytes.next + bytes.val <= Len(rd)
        THEN [ok |-> TRUE, str |-> BytesAt(rd, bytes.next, bytes.val)]
        ELSE [ok |-> FALSE, str |-> <<>>]

\* C10: UTF-8 string decoding: the string decoded at an offset that holds a
\* character count, a byte length and that many bytes is exactly those bytes.
C10_UTF8Decoding ==
    str # <<>> =>
        LET stored == StoredUTF8(sr, str[1].offset)
        IN  stored.ok => (str[1].err = NoErr /\ str[1].str = stored.str)

(***************************************************************************)
(* Attribute rendering on its own: one START_ELEMENT chunk with one        *)
(* attribute, drawn from AttrChunks, is decoded into a file whose string   *)
(* pool is AttrPool.                                                       *)
(***************************************************************************)

\* a decoded pool: 0 the element's name, 1 the attribute's name, 2 a value
AttrPool == [Flags |-> 0, Strings |-> << <<"e">>, <<"a">>, <<"v", "&">> >>, Styles |-> <<>>]

DataTypes == {TYPE_NULL, TYPE_REFERENCE, TYPE_ATTRIBUTE, TYPE_STRING, TYPE_FLOAT,
              TYPE_DIMENSION, TYPE_FRACTION, TYPE_INT_DEC, TYPE_INT_HEX,
              TYPE_INT_BOOLEAN, TYPE_INT_COLOR_ARGB8}

\* 0, 1, 2, 255, 0x7F010000, 0xFFFFFFFF
DataSample == {[hi |-> 0, lo |-> 0], [hi |-> 0, lo |-> 1], [hi |-> 0, lo |-> 2],
               [hi |-> 0, lo |-> 255], [hi |-> 32513, lo |-> 0],
               [hi |-> 65535, lo |-> 65535]}

AttrChunks ==
    { [Chunk(RES_XML_START_ELEMENT_TYPE, ResXMLTreeNodeBytes,
             ResXMLTreeNodeBytes + ResXMLTreeAttrExtBytes + ResXMLTreeAttributeBytes)
         EXCEPT !.NS = NilResStringPoolRef, !.Name = 0,
                !.attrs = <<[NS |-> NilResStringPoolRef, Name |-> 1, RawValue |-> raw,
                             TypedValue |-> [DataType |-> t, Data |-> data]]>>]
      : raw \in {NilResStringPoolRef, 2}, t \in DataTypes, data \in DataSample }

InitAttr ==
    /\ \E c \in AttrChunks : src = [len |-> c.Size, chunks |-> [o \in {0} |-> c]]
    /\ f = [NewFileValue EXCEPT !.stringPool = <<AttrPool>>]
    /\ events = <<>>
    /\ stack = <<>>
    /\ status = "init"
    /\ rcErr = NoErr
    /\ ret = <<>>
    /\ reads = <<>>
    /\ sr = <<>>
    /\ str = <<>>
    /\ facade = <<>>
    /\ passes = <<>>
    /\ aggregate = <<>>

\* readChunk hands the START_ELEMENT chunk at offset 0 to ReadStartElement
\* (main.go:238-239)
RenderAttribute ==
    /\ status = "init"
    /\ LET c == src.chunks[0]
           r == Dispatch(f, c, src.len, <<>>)
       IN  /\ f' = r.f
           /\ rcErr' = r.err
           /\ status' = IF r.panic THEN "panic" ELSE "done"
           /\ events' = Append(events, c)
    /\ UNCHANGED <<src, stack, ret, reads, sr, str, facade, passes, aggregate>>

NextAttr == RenderAttribute

SpecAttr == InitAttr /\ [][NextAttr]_vars

\* the value the rendering table gives attribute attr over pool strings strs;
\* <<>> as ok when the table names a pool string the pool does not hold
TableValue(strs, attr) ==
    LET data == attr.TypedValue.Data
        t    == attr.TypedValue.DataType
        inPool == data.hi = 0 /\ data.lo < Len(strs)
    IN  IF attr.RawValue # NilResStringPoolRef THEN <<strs[attr.RawValue + 1]>>
        ELSE CASE t = TYPE_NULL        -> <<<<>>>>
               [] t = TYPE_REFERENCE   -> <<<<"@","0","x">> \o Hex8(data)>>
               [] t = TYPE_INT_DEC     -> <<Dec32(data)>>
               [] t = TYPE_INT_HEX     -> <<<<"0","x">> \o Hex8(data)>>
               [] t = TYPE_INT_BOOLEAN -> <<IF IsZero32(data) THEN <<"f","a","l","s","e">>
                                                             ELSE <<"t","r","u","e">>>>
               [] t = TYPE_STRING      -> IF inPool THEN <<strs[data.lo + 1]>> ELSE <<>>
               [] OTHER                -> <<<<"@","0","x">> \o Hex8(data)>>

\* C8: attribute value rendering: the element's text carries, for its attribute,
\* the pool string of a non-nil raw value, and otherwise the value its data type
\* selects: empty, @0x and hex, decimal, 0x and hex, true/false, for STRING the
\* pool string at index data, and the @0x fallback for the unlisted types only.
C8_AttributeValue ==
    (status = "done" /\ events # <<>> /\ events[1].Type = RES_XML_START_ELEMENT_TYPE
       /\ Len(events[1].attrs) = 1 /\ f.stringPool = <<AttrPool>>)
    => LET v == TableValue(AttrPool.Strings, events[1].attrs[1])
       IN  v # <<>> =>
             f.XMLBuffer = <<"<","e"," ","a","=","\"">> \o Escape(v[1]) \o <<"\"",">">>

(***************************************************************************)
(* The XML translator on its own: the loop of readXML (main.go:277-283)    *)
(* has written the declaration and decoded the pool XmlPool; it then meets *)
(* any sequence of at most MaxEvents namespace and element chunks, each    *)
(* complete, in which an END_ELEMENT closes the innermost open element.    *)
(***************************************************************************)

MaxEvents == 4

\* a decoded pool: 0 an unrelated string, 1 and 2 prefixes, 3 and 4 URIs, 5 a name
XmlPool ==
    [Flags |-> 0,
     Strings |-> << <<"x">>, <<"p">>, <<"q">>, <<"u">>, <<"v">>, <<"n">>, <<"<", "t">> >>,
     Styles |-> <<>>]

Prefixes == {1, 2}
Uris == {3, 4}
ElementNames == {5}
CDataRefs == {0, 6}

NamespaceChunk(type, prefix, uri) ==
    [Chunk(type, ResXMLTreeNodeBytes, ResXMLTreeNodeBytes + ResXMLTreeNamespaceExtBytes)
       EXCEPT !.Prefix = prefix, !.Uri = uri]

StartElementChunk(ns, name) ==
    [Chunk(RES_XML_START_ELEMENT_TYPE, ResXMLTreeNodeBytes,
           ResXMLTreeNodeBytes + ResXMLTreeAttrExtBytes)
       EXCEPT !.NS = ns, !.Name = name]

EndElementChunk(ns, name) ==
    [Chunk(RES_XML_END_ELEMENT_TYPE, ResXMLTreeNodeBytes,
           ResXMLTreeNodeBytes + ResXMLTreeEndElementExtBytes)
       EXCEPT !.NS = ns, !.Name = name]

\* a CDATA chunk: a node header, then a body of a string pool reference (4
\* bytes, kept in Name) and a typed value (8 bytes); no struct of the source
\* reads the body
CDataChunk(data) ==
    [Chunk(RES_XML_CDATA_TYPE, ResXMLTreeNodeBytes, ResXMLTreeNodeBytes + 12)
       EXCEPT !.Name = data]

\* how many START_ELEMENT chunks among the first i of evs are not yet closed
Depth(evs, i) ==
    Cardinality({j \in 1..i : evs[j].Type = RES_XML_START_ELEMENT_TYPE})
      - Cardinality({j \in 1..i : evs[j].Type = RES_XML_END_ELEMENT_TYPE})

\* the positions of the START_ELEMENT chunks of evs not yet closed
Unclosed(evs) ==
    {i \in 1..Len(evs) : /\ evs[i].Type = RES_XML_START_ELEMENT_TYPE
                         /\ \A j \in i..Len(evs) : Depth(evs, j) >= Depth(evs, i)}

\* the namespaces an element met after evs can name: none, or a URI whose latest
\* namespace chunk in evs is a START_NAMESPACE
ElementNS(evs) ==
    {NilResStringPoolRef} \cup
    {uri \in Uris :
       \E i \in 1..Len(evs) :
          /\ evs[i].Type = RES_XML_START_NAMESPACE_TYPE /\ evs[i].Uri = uri
          /\ \A j \in (i + 1)..Len(evs) :
                ~(evs[j].Type = RES_XML_END_NAMESPACE_TYPE /\ evs[j].Uri = uri)}

\* the innermost open element of evs, if any
Innermost(evs) ==
    {evs[i] : i \in {k \in Unclosed(evs) : \A j \in Unclosed(evs) : j <= k}}

InitXML ==
    /\ f = [NewFileValue EXCEPT !.stringPool = <<XmlPool>>, !.XMLBuffer = XMLDeclaration]
    /\ events = <<>>
    /\ status = "loop"
    /\ src = [len |-> 0, chunks |-> <<>>]
    /\ stack = <<>>
    /\ rcErr = NoErr
    /\ ret = <<>>
    /\ reads = <<>>
    /\ sr = <<>>
    /\ str = <<>>
    /\ facade = <<>>
    /\ passes = <<>>
    /\ aggregate = <<>>

\* how readXML's loop goes on after readChunk returned r (main.go:278-282): an
\* error or a panic ends it
LoopStatus(r) ==
    IF r.panic THEN "panic" ELSE IF r.err # NoErr THEN "done" ELSE "loop"

\* the prefix of the latest START_NAMESPACE chunk of evs for uri, else prefix 1
LastPrefix(evs, uri) ==
    LET I == {i \in 1..Len(evs) : evs[i].Type = RES_XML_START_NAMESPACE_TYPE
                                  /\ evs[i].Uri = uri}
    IN  IF I = {} THEN 1 ELSE evs[CHOOSE i \in I : \A j \in I : j <= i].Prefix

\* the loop meets a START_NAMESPACE chunk
StartNamespace ==
    /\ status = "loop"
    /\ Len(events) < MaxEvents
    /\ \E prefix \in Prefixes, uri \in Uris :
         \E c \in {NamespaceChunk(RES_XML_START_NAMESPACE_TYPE, prefix, uri)} :
         \E r \in {Dispatch(f, c, c.Size, <<>>)} :
             /\ f' = r.f
             /\ rcErr' = r.err
             /\ status' = LoopStatus(r)
             /\ events' = Append(events, c)
    /\ UNCHANGED <<src, stack, ret, reads, sr, str, facade, passes, aggregate>>

\* the loop meets an END_NAMESPACE chunk, which repeats the prefix of the
\* namespace it closes
EndNamespace ==
    /\ status = "loop"
    /\ Len(events) < MaxEvents
    /\ \E uri \in Uris :
         \E c \in {NamespaceChunk(RES_XML_END_NAMESPACE_TYPE, LastPrefix(events, uri), uri)} :
         \E r \in {Dispatch(f, c, c.Size, <<>>)} :
             /\ f' = r.f
             /\ rcErr' = r.err
             /\ status' = LoopStatus(r)
             /\ events' = Append(events, c)
    /\ UNCHANGED <<src, stack, ret, reads, sr, str, facade, passes, aggregate>>

\* the loop meets a START_ELEMENT chunk, in no namespace or in one in scope; the
\* range over the pending namespaces takes any order
StartElement ==
    /\ status = "loop"
    /\ Len(events) < MaxEvents
    /\ \E ns \in ElementNS(events), name \in ElementNames, order \in PendingOrders(f) :
         \E c \in {StartElementChunk(ns, name)} :
         \E r \in {Dispatch(f, c, c.Size, order)} :
             /\ f' = r.f
             /\ rcErr' = r.err
             /\ status' = LoopStatus(r)
             /\ events' = Append(events, c)
    /\ UNCHANGED <<src, stack, ret, reads, sr, str, facade, passes, aggregate>>

\* the loop meets the END_ELEMENT chunk of the innermost open element
EndElement ==
    /\ status = "loop"
    /\ Len(events) < MaxEvents
    /\ \E e \in Innermost(events) :
         \E c \in {EndElementChunk(e.NS, e.Name)} :
         \E r \in {Dispatch(f, c, c.Size, <<>>)} :
             /\ f' = r.f
             /\ rcErr' = r.err
             /\ status' = LoopStatus(r)
             /\ events' = Append(events, c)
    /\ UNCHANGED <<src, stack, ret, reads, sr, str, facade, passes, aggregate>>

\* the loop meets a CDATA chunk: readChunk's switch has no case for its type,
\* so the chunk is stepped over
CData ==
    /\ status = "loop"
    /\ Len(events) < MaxEvents
    /\ \E data \in CDataRefs :
         \E c \in {CDataChunk(data)} :
         \E r \in {Dispatch(f, c, c.Size, <<>>)} :
             /\ f' = r.f
             /\ rcErr' = r.err
             /\ status' = LoopStatus(r)
             /\ events' = Append(events, c)
    /\ UNCHANGED <<src, stack, ret, reads, sr, str, facade, passes, aggregate>>

NextXML == StartNamespace \/ EndNamespace \/ StartElement \/ EndElement \/ CData

SpecXML == InitXML /\ [][NextXML]_vars

\* the least position of character ch in s from position i on, else Len(s) + 1
IndexFrom(s, ch, i) ==
    LET J == {j \in i..Len(s) : s[j] = ch}
    IN  IF J = {} THEN Len(s) + 1 ELSE CHOOSE j \in J : \A k \in J : j <= k

RECURSIVE ParseAttrs(_)
\* the attributes key="value" of the text behind a tag's name, in order
ParseAttrs(s) ==
    LET eq    == IndexFrom(s, "=", 1)
        quote == IndexFrom(s, "\"", eq + 2)
    IN  IF eq > Len(s) THEN <<>>
        ELSE <<[key |-> SubSeq(s, 2, eq - 1), value |-> SubSeq(s, eq + 2, quote - 1)]>>
             \o ParseAttrs(SubSeq(s, quote + 1, Len(s)))

\* the tag whose text between < and > is inner
ParseTag(inner) ==
    IF inner # <<>> /\ Head(inner) = "/"
    THEN [kind |-> "close", name |-> Tail(inner), attrs |-> <<>>]
    ELSE IF inner # <<>> /\ Head(inner) = "?"
    THEN [kind |-> "declaration", name |-> <<>>, attrs |-> <<>>]
    ELSE LET sp == IndexFrom(inner, " ", 1)
         IN  [kind |-> "open", name |-> SubSeq(inner, 1, sp - 1),
              attrs |-> ParseAttrs(SubSeq(inner, sp, Len(inner)))]

RECURSIVE Tags(_)
\* the tags of an output text, in order
Tags(buf) ==
    LET lt == IndexFrom(buf, "<", 1)
        gt == IndexFrom(buf, ">", lt)
    IN  IF lt > Len(buf) THEN <<>>
        ELSE <<ParseTag(SubSeq(buf, lt + 1, gt - 1))>> \o Tags(SubSeq(buf, gt + 1, Len(buf)))

RECURSIVE Nesting(_)
\* the names of the open tags not yet closed, and whether every close tag so
\* far carried the name of the innermost open tag
Nesting(tags) ==
    IF tags = <<>> THEN [open |-> <<>>, ok |-> TRUE]
    ELSE LET before == Nesting(SubSeq(tags, 1, Len(tags) - 1))
             t      == tags[Len(tags)]
             n      == Len(before.open)
         IN  CASE t.kind = "open"  -> [open |-> Append(before.open, t.name), ok |-> before.ok]
               [] t.kind = "close" ->
                    IF n > 0 /\ before.open[n] = t.name
                    THEN [open |-> SubSeq(before.open, 1, n - 1), ok |-> before.ok]
                    ELSE [open |-> SubSeq(before.open, 1, n - 1), ok |-> FALSE]
               [] OTHER -> before

\* C3: XML balance: when every START_ELEMENT chunk is closed by a properly
\* nested END_ELEMENT chunk with the same (ns, name), every close tag of the
\* emitted text carries the qualified name of the open tag it closes, whatever
\* namespace chunks came between the two.
C3_XMLBalance ==
    (status = "loop" /\ events # <<>>) => Nesting(Tags(f.XMLBuffer)).ok

\* the open tags of the output
OpenTags(buf) == SelectSeq(Tags(buf), LAMBDA t : t.kind = "open")

\* the positions of the START_ELEMENT chunks in evs, in order
ElementPositions(evs) ==
    LET I == {i \in 1..Len(evs) : evs[i].Type = RES_XML_START_ELEMENT_TYPE}
    IN  [k \in 1..Cardinality(I) |->
           CHOOSE i \in I : Cardinality({j \in I : j < i}) = k - 1]

\* the positions of the START_NAMESPACE chunks of evs that its k-th
\* START_ELEMENT chunk follows with no other START_ELEMENT between
NamespacesBefore(evs, k) ==
    LET at   == ElementPositions(evs)
        from == IF k = 1 THEN 0 ELSE at[k - 1]
    IN  {i \in (from + 1)..(at[k] - 1) : evs[i].Type = RES_XML_START_NAMESPACE_TYPE}

\* the xmlns declarations of a tag, in order
Declarations(tag) ==
    SelectSeq(tag.attrs, LAMBDA a : Len(a.key) >= 6 /\ SubSeq(a.key, 1, 6) = <<"x","m","l","n","s",":">>)

\* the declaration xmlns:prefix="uri" over the pool strings strs
Declaration(strs, prefix, uri) ==
    [key |-> <<"x","m","l","n","s",":">> \o strs[prefix + 1], value |-> Escape(strs[uri + 1])]

\* C4 (as stated): every START_NAMESPACE chunk yields exactly one declaration, on
\* the first START_ELEMENT that follows it and on no later one: each open tag
\* carries one declaration per START_NAMESPACE chunk met since the element
\* before it, and the pending set is empty after a START_ELEMENT.
C4_OneDeclarationPerEvent ==
    (status = "loop") =>
        LET tags == OpenTags(f.XMLBuffer)
            strs == XmlPool.Strings
        IN  /\ Len(tags) = Len(ElementPositions(events))
            /\ \A k \in 1..Len(tags) :
                 LET N == NamespacesBefore(events, k)
                     D == Declarations(tags[k])
                 IN  /\ Len(D) = Cardinality(N)
                     /\ \A i \in N : \E d \in 1..Len(D) :
                            D[d] = Declaration(strs, events[i].Prefix, events[i].Uri)
            /\ (events # <<>> /\ events[Len(events)].Type = RES_XML_START_ELEMENT_TYPE)
                 => f.notPrecessedNS = <<>>

\* C4 (amended): each open tag carries exactly one declaration per distinct URI
\* among the START_NAMESPACE chunks met since the element before it, with the
\* prefix of the latest of them for that URI, and no other declaration; the
\* pending set is empty after a START_ELEMENT.
C4_OneDeclarationPerPendingURI ==
    (status = "loop") =>
        LET tags == OpenTags(f.XMLBuffer)
            strs == XmlPool.Strings
        IN  /\ Len(tags) = Len(ElementPositions(events))
            /\ \A k \in 1..Len(tags) :
                 LET N == NamespacesBefore(events, k)
                     U == {events[i].Uri : i \in N}
                     D == Declarations(tags[k])
                     latest(uri) == CHOOSE i \in N : /\ events[i].Uri = uri
                                                     /\ \A j \in N : events[j].Uri = uri => j <= i
                 IN  /\ Len(D) = Cardinality(U)
                     /\ {D[d] : d \in 1..Len(D)}
                          = {Declaration(strs, events[latest(uri)].Prefix, uri) : uri \in U}
            /\ (events # <<>> /\ events[Len(events)].Type = RES_XML_START_ELEMENT_TYPE)
                 => f.notPrecessedNS = <<>>

\* C4 witness: an element decoded behind START_NAMESPACE chunks that bind one
\* URI twice and a second URI once, carrying two declarations
C4_Witness ==
    /\ status = "loop"
    /\ Len(events) = 4
    /\ events[1].Type = RES_XML_START_NAMESPACE_TYPE /\ events[1].Uri = 3
    /\ events[2].Type = RES_XML_START_NAMESPACE_TYPE /\ events[2].Uri = 3
    /\ events[2].Prefix # events[1].Prefix
    /\ events[3].Type = RES_XML_START_NAMESPACE_TYPE /\ events[3].Uri = 4
    /\ events[4].Type = RES_XML_START_ELEMENT_TYPE
    /\ Len(Declarations(OpenTags(f.XMLBuffer)[1])) = 2
    /\ f.notPrecessedNS = <<>>

\* the step of the loop over a CDATA chunk that leaves the loop running
CDataStep ==
    /\ Len(events') = Len(events) + 1
    /\ events'[Len(events')].Type = RES_XML_CDATA_TYPE
    /\ status' = "loop"

\* C11: every CDATA chunk met in the loop of an XML chunk appends the escaped
\* pool string it references to the output, right behind the output of the
\* chunks before it
C11_CDataAppended ==
    [][CDataStep =>
         f'.XMLBuffer = f.XMLBuffer \o Escape(GetString(f, events'[Len(events')].Name).s)]_vars



(***************************************************************************)
(* The injection pass (unnamed/part_000:16-51, 79-82, 159-162).  A value   *)
(* of the walked aggregate is a node [kind, id, of, kids]: a facade (kind  *)
(* Bool or Int32, id its cell in facade), a pointer (kids <<>> when nil,   *)
(* of the kind it points to), a struct, slice or array (kids its fields    *)
(* or elements, each [exported, node]), or a string.  A reflect.Value is   *)
(* [node, addr, ro]: the node with reflect's flagAddr and flagRO.          *)
(***************************************************************************)

MaxPasses == 3

FacadeKinds == {"Bool", "Int32"}

Facade(kind, id) == [kind |-> kind, id |-> id, of |-> "", kids |-> <<>>]
String == [kind |-> "String", id |-> 0, of |-> "", kids |-> <<>>]
\* a struct field or a slice or array element
Field(exported, node) == [exported |-> exported, node |-> node]
NilPtr(of) == [kind |-> "Ptr", id |-> 0, of |-> of, kids |-> <<>>]
Ptr(node) == [kind |-> "Ptr", id |-> 0, of |-> node.kind, kids |-> <<Field(TRUE, node)>>]
Struct(fields) == [kind |-> "Struct", id |-> 0, of |-> "", kids |-> fields]
Slice(elems) ==
    [kind |-> "Slice", id |-> 0, of |-> "",
     kids |-> [i \in 1..Len(elems) |-> Field(TRUE, elems[i])]]
Array(elems) ==
    [kind |-> "Array", id |-> 0, of |-> "",
     kids |-> [i \in 1..Len(elems) |-> Field(TRUE, elems[i])]]

\* reflect.ValueOf(x)
ValueOf(node) == [node |-> node, addr |-> FALSE, ro |-> FALSE]
\* Value.Elem of a non-nil pointer
Elem(val) == [node |-> val.node.kids[1].node, addr |-> TRUE, ro |-> val.ro]
\* Value.Field(i) of a struct, Value.Index(i) of a slice or array
Child(val, i) ==
    [node |-> val.node.kids[i].node,
     addr |-> IF val.node.kind = "Slice" THEN TRUE ELSE val.addr,
     ro   |-> val.ro \/ ~val.node.kids[i].exported]
CanInterface(val) == ~val.ro
CanAddr(val) == val.addr

\* (v *Bool) inject (part_000:79-82) on the cell v
BoolInjectOnce(v, table, config) ==
    IF v.table = 0 THEN [v EXCEPT !.table = table, !.config = config] ELSE v

BoolInject(v, table, config) == [v EXCEPT !.table = table, !.config = config]

\* (v *Int32) inject (part_000:159-162) on the cell v
Int32Inject(v, table, config) == [v EXCEPT !.table = table, !.config = config]

\* the inject method of the facade node, applied in place to its cell
InjectInPlace(cells, node, table, config) ==
    [cells EXCEPT ![node.id] = IF node.kind = "Bool" THEN BoolInject(@, table, config)
                                                    ELSE Int32Inject(@, table, config)]

RECURSIVE inject(_, _, _, _), InjectEach(_, _, _, _, _)
\* inject(val, table, config) over the cells: [cells, panic]
inject(cells, val, table, config) ==
    IF val.node.kind = "Ptr" /\ val.node.kids = <<>>
    THEN [cells |-> cells, panic |-> FALSE]
    ELSE LET v == IF val.node.kind = "Ptr" THEN Elem(val) ELSE val
         IN  IF CanInterface(v) /\ v.node.kind = "Ptr" /\ v.node.of \in FacadeKinds
             THEN \* the value is a *Bool or *Int32: the method runs on what it points
                  \* to, and dereferences nil when it points to nothing
                  IF v.node.kids = <<>> THEN [cells |-> cells, panic |-> TRUE]
                  ELSE [cells |-> InjectInPlace(cells, v.node.kids[1].node, table, config),
                        panic |-> FALSE]
             ELSE IF CanAddr(v) /\ CanInterface(v) /\ v.node.kind \in FacadeKinds
             THEN \* v.Addr() keeps flagRO and is a *Bool or *Int32
                  [cells |-> InjectInPlace(cells, v.node, table, config), panic |-> FALSE]
             ELSE IF v.node.kind \in {"Slice", "Array", "Struct"}
             THEN InjectEach(cells, v, 1, table, config)
             ELSE \* other kinds are ignored; a facade not injected in place is a
                  \* struct none of whose fields is injectable
                  [cells |-> cells, panic |-> FALSE]

\* the loops over the elements or fields of val from the i-th on (part_000:39-49)
InjectEach(cells, val, i, table, config) ==
    IF i > Len(val.node.kids) THEN [cells |-> cells, panic |-> FALSE]
    ELSE LET r == inject(cells, Child(val, i), table, config)
         IN  IF r.panic THEN r ELSE InjectEach(r.cells, val, i + 1, table, config)

\* a facade as unmarshalling leaves it: no value read yet, nothing bound
NewFacade == [value |-> "", table |-> 0, config |-> 0]

\* the tables and configs a pass may bind; 0 is the nil pointer
Tables == {0, 1}
Configs == {0, 1}

Aggregates ==
    { \* *struct{ X Bool; y Int32; S string; Z Int32 }
      Ptr(Struct(<<Field(TRUE, Facade("Bool", 1)), Field(FALSE, Facade("Int32", 2)),
                   Field(TRUE, String), Field(TRUE, Facade("Int32", 3))>>)),
      \* *struct{ Items []Bool; P *Int32 }
      Ptr(Struct(<<Field(TRUE, Slice(<<Facade("Bool", 1), Facade("Bool", 2)>>)),
                   Field(TRUE, Ptr(Facade("Int32", 3)))>>)),
      \* struct{ X Bool; L []Int32; A [1]Bool } passed by value
      Struct(<<Field(TRUE, Facade("Bool", 1)), Field(TRUE, Slice(<<Facade("Int32", 2)>>)),
               Field(TRUE, Array(<<Facade("Bool", 3)>>))>>),
      \* *struct{ N *Bool (nil); Inner struct{ B Bool }; PP **Bool }
      Ptr(Struct(<<Field(TRUE, NilPtr("Bool")),
                   Field(TRUE, Struct(<<Field(TRUE, Facade("Bool", 1))>>)),
                   Field(TRUE, Ptr(Ptr(Facade("Bool", 2))))>>)),
      \* *struct{ B Bool; PP **Bool pointing to a nil *Bool }
      Ptr(Struct(<<Field(TRUE, Facade("Bool", 1)),
                   Field(TRUE, Ptr(NilPtr("Bool")))>>)),
      \* a nil *struct
      NilPtr("Struct"),
      \* *[]*struct{ B Int32 } holding a struct and nil
      Ptr(Slice(<<Ptr(Struct(<<Field(TRUE, Facade("Int32", 1))>>)), NilPtr("Struct")>>)),
      \* **struct{ B Bool }
      Ptr(Ptr(Struct(<<Field(TRUE, Facade("Bool", 1))>>))) }

RECURSIVE Facades(_)
\* the facade nodes of the aggregate under node
Facades(node) ==
    IF node.kind \in FacadeKinds THEN {node}
    ELSE UNION {Facades(node.kids[i].node) : i \in 1..Len(node.kids)}

InitInject ==
    /\ aggregate \in Aggregates
    /\ facade = [id \in 1..3 |-> NewFacade]
    /\ passes = <<>>
    /\ status = "idle"
    /\ f = NewFileValue
    /\ src = [len |-> 0, chunks |-> <<>>]
    /\ stack = <<>>
    /\ rcErr = NoErr
    /\ ret = <<>>
    /\ reads = <<>>
    /\ events = <<>>
    /\ sr = <<>>
    /\ str = <<>>

\* one pass: inject(reflect.ValueOf(aggregate), table, config)
InjectPass ==
    /\ status = "idle"
    /\ Len(passes) < MaxPasses
    /\ \E table \in Tables, config \in Configs :
         \E r \in {inject(facade, ValueOf(aggregate), table, config)} :
             /\ facade' = r.cells
             /\ status' = IF r.panic THEN "panic" ELSE "idle"
             /\ passes' = Append(passes, [table |-> table, config |-> config])
    /\ UNCHANGED <<f, src, stack, rcErr, ret, reads, events, sr, str, aggregate>>

\* (v *Bool) SetBool(value) (part_000:85-87)
SetBool ==
    /\ status = "idle"
    /\ \E node \in Facades(aggregate), value \in BOOLEAN :
         /\ node.kind = "Bool"
         /\ facade' = [facade EXCEPT ![node.id].value = IF value THEN "true" ELSE "false"]
    /\ UNCHANGED <<f, src, stack, status, rcErr, ret, reads, events, sr, str, passes, aggregate>>

\* (v *Int32) SetInt32(value) (part_000:165-167), for the value 7
SetInt32 ==
    /\ status = "idle"
    /\ \E node \in Facades(aggregate) :
         /\ node.kind = "Int32"
         /\ facade' = [facade EXCEPT ![node.id].value = "7"]
    /\ UNCHANGED <<f, src, stack, status, rcErr, ret, reads, events, sr, str, passes, aggregate>>

\* UnmarshalXMLAttr(attr) of either facade (part_000:95-98, 175-178), for an
\* attribute holding a resource id
UnmarshalXMLAttr ==
    /\ status = "idle"
    /\ \E node \in Facades(aggregate) :
         facade' = [facade EXCEPT ![node.id].value = "@0x7F010000"]
    /\ UNCHANGED <<f, src, stack, status, rcErr, ret, reads, events, sr, str, passes, aggregate>>

NextInject == InjectPass \/ SetBool \/ SetInt32 \/ UnmarshalXMLAttr

SpecInject == InitInject /\ [][NextInject]_vars



RECURSIVE Reached(_, _, _)
\* the cells of the facades a walk reaches in a way that lets it bind them: met
\* at an addressable place (addr) through exported fields only (~ro), behind at
\* most one pointer per field or element, or as the target of a **Bool / **Int32
Reached(node, addr, ro) ==
    LET n == IF node.kind = "Ptr" /\ node.kids # <<>> THEN node.kids[1].node ELSE node
        a == IF node.kind = "Ptr" THEN TRUE ELSE addr
    IN  IF ro \/ (node.kind = "Ptr" /\ node.kids = <<>>) THEN {}
        ELSE CASE n.kind \in FacadeKinds -> IF a THEN {n.id} ELSE {}
               [] n.kind = "Ptr" ->
                    IF n.of \in FacadeKinds /\ n.kids # <<>> THEN {n.kids[1].node.id} ELSE {}
               [] n.kind = "Struct" ->
                    UNION {Reached(n.kids[i].node, a, ~n.kids[i].exported) : i \in 1..Len(n.kids)}
               [] n.kind = "Slice" ->
                    UNION {Reached(n.kids[i].node, TRUE, FALSE) : i \in 1..Len(n.kids)}
               [] n.kind = "Array" ->
                    UNION {Reached(n.kids[i].node, a, FALSE) : i \in 1..Len(n.kids)}
               [] OTHER -> {}

\* the facades the passes over the aggregate reach
ReachedByWalk == Reached(aggregate, FALSE, FALSE)

\* after a pass that returned, every facade reached holds the last pass's table
\* and config
LastPassWins ==
    (passes # <<>> /\ status = "idle") =>
        \A id \in ReachedByWalk :
            /\ facade[id].table = passes[Len(passes)].table
            /\ facade[id].config = passes[Len(passes)].config

\* a pass changes no facade's value, and a pass with the table and config of the
\* pass before it changes nothing
PassKeepsValues ==
    passes' # passes =>
        /\ \A id \in DOMAIN facade : facade'[id].value = facade[id].value
        /\ (passes # <<>> /\ passes'[Len(passes')] = passes[Len(passes)] /\ status' = "idle")
             => facade' = facade

\* C7: injection is idempotent and last-wins: after any sequence of passes every
\* facade reached by the walk holds the table and config of the most recent
\* pass, no pass changes a facade's textual value, and repeating a pass with the
\* same table and config leaves every facade unchanged.
C7_InjectLastWins == [](LastPassWins) /\ [][PassKeepsValues]_vars

\* C7 witness: two passes with different tables and configs, then the second
\* again, over an aggregate with three reached facades that carry values
C7_Witness ==
    /\ status = "idle"
    /\ Len(passes) = 3
    /\ passes[1].table # passes[2].table /\ passes[1].config # passes[2].config
    /\ passes[3] = passes[2]
    /\ Cardinality(ReachedByWalk) = 3
    /\ \A id \in ReachedByWalk : /\ facade[id].value # ""
                                 /\ facade[id].table = passes[3].table
                                 /\ facade[id].config = passes[3].config


====
